---- MODULE Spec2Model ----
(***************************************************************************)
(* Model of the MCP scanner of pkg/mcp (scanner.go, types.go): the Scanner *)
(* object (requestID, sessionID), one Scan invocation after another on it, *)
(* and the remote server as the environment that picks the outcome of each *)
(* HTTP exchange.  A Scan is split at its network calls, the only places   *)
(* where it waits: every request has a step that builds and issues it and  *)
(* a step that handles whatever came back.                                 *)
(*                                                                         *)
(* Texts (response bodies) are sequences of tokens.  The tokens "event:",  *)
(* "data:", " " and "\n" stand for those very characters; a token named    *)
(* "doc_..." stands for the text of one JSON document (see Doc), and any   *)
(* other token for text that is no JSON.                                   *)
(***************************************************************************)
EXTENDS Integers, Sequences, FiniteSets, TLC

\* How many times Scan is invoked on the one Scanner.
MaxScans == 2

\* http.StatusOK, the only status sendRequest accepts.
StatusOK == 200
\* From this status on, sendNotification logs the response as an error.
StatusErrorFrom == 400
\* The value New gives requestID.
FirstRequestID == 1

VARIABLES
    HTTPUrl,      \* options.HTTPUrl: "valid" or "unparsable"
    requestID,    \* Scanner.requestID
    sessionID,    \* Scanner.sessionID ("" is unset)
    pc,           \* where the current Scan invocation stands
    scanNo,       \* number of Scan invocations started on this Scanner
    expired,      \* the deadline of the current Scan's context has passed
    req,          \* the request last issued: method, id (0: none), session header
    sent,         \* the requests issued in this Scan, in order: <<method, id>>
    last,         \* how the last exchange ended, as the code saw it
    initErr,      \* what initialize returned ("" while not returned, "none": nil)
    scanErr,      \* what Scan returned ("" while running, "none": nil)
    tools,        \* what listTools returned
    prompts,      \* what listPrompts returned
    resources,    \* what listResources returned
    listed,       \* the categories whose listing function has returned
    displayed,    \* what displayResults was given, <<>> until it has returned
    observed,     \* history: the session header of the latest status-200 response
                  \* to a call that carried one ("" when there was none)
    analysed,     \* what displayResults has passed to analyzeForInjection so far
    analysis      \* the reply to the last of them and the line printed for it

vars == <<HTTPUrl, requestID, sessionID, pc, scanNo, expired, req, sent, last,
          initErr, scanErr, tools, prompts, resources, listed, displayed, observed,
          analysed, analysis>>

----------------------------------------------------------------------------
(* JSON documents a server may answer with. *)

Absent == [t |-> "absent"]
BadType == [t |-> "bad"]
List(items) == [t |-> "list", items |-> items]

\* Upstream records (types.go Tool, Prompt, Resource): a JSON object's keys;
\* other is any further key (inputSchema, arguments, mimeType).
Echo == [name |-> "echo", description |-> "Echoes input", uri |-> "", other |-> "schema"]
Add == [name |-> "add", description |-> "", uri |-> "", other |-> ""]
Greet == [name |-> "greet", description |-> "Greets", uri |-> "", other |-> "args"]
Readme == [name |-> "readme", description |-> "", uri |-> "file:///readme", other |-> "text/plain"]

ResultObject(t, p, r) == [t |-> "object", tools |-> t, prompts |-> p, resources |-> r]

\* A JSON text: top is the kind of its top-level value; for an object, result
\* is the value under "result" and error the kind of value under "error".
Object(result, error) == [top |-> "object", result |-> result, error |-> error]
NoObject(top) == [top |-> top, result |-> Absent, error |-> "absent"]

Doc(tok) ==
    CASE tok = "doc_init" -> Object(ResultObject(Absent, Absent, Absent), "absent")
      [] tok = "doc_tools" -> Object(ResultObject(List(<<Echo, Add>>), Absent, Absent), "absent")
      [] tok = "doc_prompts" -> Object(ResultObject(Absent, List(<<Greet>>), Absent), "absent")
      [] tok = "doc_resources" -> Object(ResultObject(Absent, Absent, List(<<Readme>>)), "absent")
      [] tok = "doc_all" -> Object(ResultObject(List(<<Echo>>), List(<<Greet>>), List(<<Readme>>)), "absent")
      [] tok = "doc_empty_lists" -> Object(ResultObject(List(<<>>), List(<<>>), List(<<>>)), "absent")
      [] tok = "doc_bad_lists" -> Object(ResultObject(BadType, BadType, BadType), "absent")
      [] tok = "doc_number_result" -> Object([t |-> "number"], "absent")
      [] tok = "doc_error" -> Object(Absent, "object")
      [] tok = "doc_error_and_result" ->
            Object(ResultObject(List(<<Echo>>), List(<<Greet>>), List(<<Readme>>)), "object")
      [] tok = "doc_error_string" -> Object(Absent, "string")
      [] tok = "doc_neither" -> Object(Absent, "absent")
      [] tok = "doc_null" -> NoObject("null")
      [] tok = "doc_array" -> NoObject("array")
      [] OTHER -> NoObject("invalid")

DocTokens == {"doc_init", "doc_tools", "doc_prompts", "doc_resources", "doc_all",
              "doc_empty_lists", "doc_bad_lists", "doc_number_result", "doc_error",
              "doc_error_and_result",
              "doc_error_string", "doc_neither", "doc_null", "doc_array"}

----------------------------------------------------------------------------
(* Texts: the functions of package strings the scanner uses. *)

\* The white space strings.TrimSpace cuts off; the form feed stands for the
\* white space that is none to encoding/json.
IsSpace(tok) == tok \in {" ", "\n", "\r", "\t", "\f"}

HasPrefix(s, prefix) ==
    /\ Len(s) >= Len(prefix)
    /\ SubSeq(s, 1, Len(prefix)) = prefix

TrimPrefix(s, prefix) ==
    IF HasPrefix(s, prefix) THEN SubSeq(s, Len(prefix) + 1, Len(s)) ELSE s

RECURSIVE TrimLeft(_)
TrimLeft(s) ==
    IF s # <<>> /\ IsSpace(Head(s)) THEN TrimLeft(Tail(s)) ELSE s

RECURSIVE TrimRight(_)
TrimRight(s) ==
    IF s # <<>> /\ IsSpace(s[Len(s)]) THEN TrimRight(SubSeq(s, 1, Len(s) - 1)) ELSE s

TrimSpace(s) == TrimRight(TrimLeft(s))

\* strings.Split(s, "\n"): the pieces between the newlines, empty ones kept.
RECURSIVE SplitLines(_, _)
SplitLines(s, cur) ==
    IF s = <<>> THEN <<cur>>
    ELSE IF Head(s) = "\n" THEN <<cur>> \o SplitLines(Tail(s), <<>>)
    ELSE SplitLines(Tail(s), Append(cur, Head(s)))

Split(s) == SplitLines(s, <<>>)

EventPrefix == <<"event:">>
DataPrefix == <<"data:", " ">>

RECURSIVE FirstDataLine_asIs(_)
FirstDataLine_asIs(lines) ==
    IF lines = <<>> THEN [err |-> TRUE, data |-> <<>>]
    ELSE IF HasPrefix(Head(lines), DataPrefix)
         THEN [err |-> FALSE, data |-> TrimPrefix(Head(lines), DataPrefix)]
         ELSE FirstDataLine_asIs(Tail(lines))

RECURSIVE FirstDataLine(_)
FirstDataLine(lines) ==
    IF lines = <<>> THEN [err |-> TRUE, data |-> <<>>]
    ELSE IF HasPrefix(TrimSpace(Head(lines)), DataPrefix)
         THEN [err |-> FALSE, data |-> TrimPrefix(TrimSpace(Head(lines)), DataPrefix)]
         ELSE FirstDataLine(Tail(lines))

parseSSEResponse_secondLine(sseData) ==
    LET lines == Split(sseData)
        found == FirstDataLine(lines)
    IN  IF found.err /\ Len(lines) >= 2 THEN [err |-> FALSE, data |-> lines[2]] ELSE found
parseSSEResponse_wholeBody(sseData) == [err |-> FALSE, data |-> sseData]
parseSSEResponse(sseData) == FirstDataLine(Split(sseData))

----------------------------------------------------------------------------
(* encoding/json, as far as the scanner's types use it. *)

\* The zero JSONRPCResponse: Result is nil, Error is nil.
ZeroResponse == [Result |-> Absent, Error |-> FALSE]

\* The white space a JSON text may have around its value.
IsJSONSpace(tok) == tok \in {" ", "\n", "\r", "\t"}

RECURSIVE SkipSpace(_)
SkipSpace(s) ==
    IF s # <<>> /\ IsJSONSpace(Head(s)) THEN SkipSpace(Tail(s)) ELSE s

RECURSIVE SkipSpaceAtEnd(_)
SkipSpaceAtEnd(s) ==
    IF s # <<>> /\ IsJSONSpace(s[Len(s)]) THEN SkipSpaceAtEnd(SubSeq(s, 1, Len(s) - 1)) ELSE s

\* json.Unmarshal(data, response) on a zero response.
Unmarshal(data) ==
    LET text == SkipSpaceAtEnd(SkipSpace(data))
        doc == IF Len(text) = 1 THEN Doc(text[1]) ELSE NoObject("invalid")
    IN  CASE doc.top = "invalid" -> [err |-> TRUE, response |-> ZeroResponse]
          [] doc.top = "null" -> [err |-> FALSE, response |-> ZeroResponse]
          [] doc.top = "object" ->
                [err |-> doc.error = "string",
                 response |-> [Result |-> doc.result, Error |-> doc.error = "object"]]
          [] OTHER -> [err |-> TRUE, response |-> ZeroResponse]

\* json.Marshal(response.Result) followed by json.Unmarshal into the list
\* result type whose one field is `field`.
UnmarshalList(result, field) ==
    CASE result.t = "absent" -> [err |-> FALSE, items |-> <<>>]
      [] result.t = "object" ->
            LET l == CASE field = "tools" -> result.tools
                       [] field = "prompts" -> result.prompts
                       [] OTHER -> result.resources
            IN  CASE l.t = "absent" -> [err |-> FALSE, items |-> <<>>]
                  [] l.t = "list" -> [err |-> FALSE, items |-> l.items]
                  [] OTHER -> [err |-> TRUE, items |-> <<>>]
      [] OTHER -> [err |-> TRUE, items |-> <<>>]

----------------------------------------------------------------------------
(* The environment: what one HTTP exchange may come to. *)

SessionHeaders == {"", "A", "B"}
Statuses == {StatusOK, 202, 500}

SSE(payload) == <<"event:", " ", "message", "\n">> \o payload \o <<"\n", "\n">>

\* Bodies of status-200 responses.
Bodies ==
    {<<d>> : d \in DocTokens}
    \cup {<<>>, <<"garbage">>,
          SSE(<<"data:", " ", "doc_all">>),
          SSE(<<"data:", " ", "doc_error">>),
          SSE(<<"data:", " ", "doc_tools", "\n", "data:", " ", "doc_empty_lists">>),
          SSE(<<" ", "data:", " ", " ", "doc_all", " ">>),
          SSE(<<"data:", "doc_all">>),
          SSE(<<"doc_all">>),
          <<"data:", " ", "doc_all", "\n">>,
          SSE(<<"data:", " ", "\n", "data:", " ", "doc_prompts">>),
          SSE(<<"data:", " ", "doc_resources", "\f">>),
          <<"doc_resources", "\f">>}

\* The bodies a server sends along with a session header as well; the other
\* bodies come without one.
BodiesWithHeader ==
    {<<"doc_init">>, <<"doc_all">>, <<"doc_error">>, <<"garbage">>,
     SSE(<<"data:", " ", "doc_all">>)}

\* Bodies of responses with another status.
ErrorBodies == {<<"oops">>, <<"doc_all">>}

NetErr == [kind |-> "neterr", status |-> 0, hdr |-> "", body |-> <<>>, readErr |-> FALSE]
Timeout == [kind |-> "timeout", status |-> 0, hdr |-> "", body |-> <<>>, readErr |-> FALSE]
Http(status, hdr, body, readErr) ==
    [kind |-> "http", status |-> status, hdr |-> hdr, body |-> body, readErr |-> readErr]

\* What a server can answer to a call.
CallResponses ==
    {Http(StatusOK, "", b, FALSE) : b \in Bodies}
    \cup {Http(StatusOK, "A", b, FALSE) : b \in BodiesWithHeader}
    \cup {Http(StatusOK, "B", b, FALSE) : b \in {<<"doc_init">>, <<"doc_all">>}}
    \cup {Http(StatusOK, h, <<>>, TRUE) : h \in {"", "A"}}
    \cup {Http(st, "", <<"oops">>, FALSE) : st \in Statuses \ {StatusOK}}
    \cup {Http(500, "A", b, FALSE) : b \in ErrorBodies}

\* What a server can answer to a notification.
NotifyResponses ==
    {Http(st, h, <<>>, FALSE) : st \in Statuses, h \in SessionHeaders}

\* Whether the context the request of `method` is made with is done: Scan makes
\* one context and hands it to every call.
ctxDone_perCall(method) == method = "initialize" /\ expired
ctxDone(method) == expired

\* httpClient.Do: with the context done, the deadline error; otherwise a
\* network failure or a response.
Do(method, responses) ==
    IF ctxDone(method) THEN {Timeout} ELSE {NetErr} \cup responses

----------------------------------------------------------------------------
(* Transport. *)

nextRequestID_stuck(rid) == [id |-> rid, requestID |-> rid]
nextRequestID(rid) == [id |-> rid, requestID |-> rid + 1]

\* The end of sendRequest: the body, taken out of its SSE framing when it
\* starts with "event:", is decoded into the response.
decodeBody(body) ==
    IF HasPrefix(body, EventPrefix)
    THEN LET p == parseSSEResponse(body)
             u == Unmarshal(p.data)
         IN  IF p.err THEN [err |-> "sse", response |-> ZeroResponse]
             ELSE [err |-> IF u.err THEN "json" ELSE "none", response |-> u.response]
    ELSE LET u == Unmarshal(body)
         IN  [err |-> IF u.err THEN "json" ELSE "none", response |-> u.response]

\* decodeBody of every body a server sends, worked out once.
decoded == [body \in {o.body : o \in CallResponses} |-> decodeBody(body)]

\* What the error of sendRequest says of the response: the status and the
\* body text in the error for a status other than 200, nothing otherwise.
NoMessage == [status |-> 0, body |-> <<>>]
StatusMessage(o) == [status |-> o.status, body |-> o.body]

\* sendRequest with s.sessionID = sid when the exchange comes to o: the error
\* it returns and what it says, the response it filled in and s.sessionID
\* afterwards.
sendRequest_accepts2xx(sid, o) ==
    IF o.kind # "http"
    THEN [err |-> "transport", msg |-> NoMessage, response |-> ZeroResponse,
          sessionID |-> sid]
    ELSE IF o.status < 200 \/ o.status >= 300
    THEN [err |-> "status", msg |-> StatusMessage(o), response |-> ZeroResponse,
          sessionID |-> sid]
    ELSE [err |-> IF o.readErr THEN "read" ELSE decoded[o.body].err,
          msg |-> NoMessage,
          response |-> IF o.readErr THEN ZeroResponse ELSE decoded[o.body].response,
          sessionID |-> IF o.hdr # "" THEN o.hdr ELSE sid]
sendRequest_noStatusCheck(sid, o) ==
    IF o.kind # "http"
    THEN [err |-> "transport", msg |-> NoMessage, response |-> ZeroResponse,
          sessionID |-> sid]
    ELSE [err |-> decoded[o.body].err, msg |-> NoMessage,
          response |-> decoded[o.body].response,
          sessionID |-> IF o.hdr # "" THEN o.hdr ELSE sid]
sendRequest_firstWriter(sid, o) ==
    IF o.kind # "http"
    THEN [err |-> "transport", msg |-> NoMessage, response |-> ZeroResponse,
          sessionID |-> sid]
    ELSE IF o.status # StatusOK
    THEN [err |-> "status", msg |-> StatusMessage(o), response |-> ZeroResponse,
          sessionID |-> sid]
    ELSE LET captured == IF o.hdr # "" /\ sid = "" THEN o.hdr ELSE sid
         IN  [err |-> IF o.readErr THEN "read" ELSE decoded[o.body].err,
              msg |-> NoMessage,
              response |-> IF o.readErr THEN ZeroResponse ELSE decoded[o.body].response,
              sessionID |-> captured]
sendRequest(sid, o) ==
    IF o.kind # "http"
    THEN [err |-> "transport", msg |-> NoMessage, response |-> ZeroResponse,
          sessionID |-> sid]
    ELSE IF o.status # StatusOK
    THEN [err |-> "status", msg |-> StatusMessage(o), response |-> ZeroResponse,
          sessionID |-> sid]
    ELSE LET captured == IF o.hdr # "" THEN o.hdr ELSE sid
         IN  IF o.readErr
             THEN [err |-> "read", msg |-> NoMessage, response |-> ZeroResponse,
                   sessionID |-> captured]
             ELSE [err |-> decoded[o.body].err, msg |-> NoMessage,
                   response |-> decoded[o.body].response, sessionID |-> captured]

\* sendNotification: the error it returns, whether it logged an error status,
\* and s.sessionID afterwards.
sendNotification_capturesSession(sid, o) ==
    IF o.kind # "http" THEN [err |-> "transport", warned |-> FALSE, sessionID |-> sid]
    ELSE [err |-> "none", warned |-> o.status >= StatusErrorFrom,
          sessionID |-> IF o.hdr # "" THEN o.hdr ELSE sid]
sendNotification(sid, o) ==
    IF o.kind # "http" THEN [err |-> "transport", warned |-> FALSE, sessionID |-> sid]
    ELSE [err |-> "none", warned |-> o.status >= StatusErrorFrom, sessionID |-> sid]

----------------------------------------------------------------------------
(* Handshake and the three listing functions, from what sendRequest gave. *)

\* initialize, up to the notification: the error it returns ("none": it goes
\* on to send notifications/initialized).
initializeError_lenient(r) == IF r.err # "none" THEN "request_failed" ELSE "none"
initializeError(r) ==
    IF r.err # "none" THEN "request_failed"
    ELSE IF r.response.Error THEN "rpc_error"
    ELSE "none"

\* initialize, after the notification: a failed notification is logged only.
initializeAfterNotify_strict(n) == IF n.err # "none" THEN "notify_failed" ELSE "none"
initializeAfterNotify(n) == "none"

ToolInfo(rec) == [name |-> rec.name, description |-> rec.description]
PromptInfo(rec) == [name |-> rec.name, description |-> rec.description]
ResourceInfo_noUri(rec) == [name |-> rec.name, description |-> rec.description, uri |-> ""]
ResourceInfo(rec) == [name |-> rec.name, description |-> rec.description, uri |-> rec.uri]

\* warn is the warning the function logs ("none": it logged none).
listTools_keepsOnError(r) ==
    LET u == UnmarshalList(r.response.Result, "tools")
    IN  IF r.err # "none" THEN [warn |-> "send", items |-> <<>>]
        ELSE IF u.err THEN [warn |-> "decode", items |-> <<>>]
        ELSE [warn |-> IF r.response.Error THEN "rpc" ELSE "none",
              items |-> [i \in 1..Len(u.items) |-> ToolInfo(u.items[i])]]
listTools(r) ==
    LET u == UnmarshalList(r.response.Result, "tools")
    IN  IF r.err # "none" THEN [warn |-> "send", items |-> <<>>]
        ELSE IF r.response.Error THEN [warn |-> "rpc", items |-> <<>>]
        ELSE IF u.err THEN [warn |-> "decode", items |-> <<>>]
        ELSE [warn |-> "none", items |-> [i \in 1..Len(u.items) |-> ToolInfo(u.items[i])]]

listPrompts(r) ==
    LET u == UnmarshalList(r.response.Result, "prompts")
    IN  IF r.err # "none" THEN [warn |-> "send", items |-> <<>>]
        ELSE IF r.response.Error THEN [warn |-> "rpc", items |-> <<>>]
        ELSE IF u.err THEN [warn |-> "decode", items |-> <<>>]
        ELSE [warn |-> "none", items |-> [i \in 1..Len(u.items) |-> PromptInfo(u.items[i])]]

listResources(r) ==
    LET u == UnmarshalList(r.response.Result, "resources")
    IN  IF r.err # "none" THEN [warn |-> "send", items |-> <<>>]
        ELSE IF r.response.Error THEN [warn |-> "rpc", items |-> <<>>]
        ELSE IF u.err THEN [warn |-> "decode", items |-> <<>>]
        ELSE [warn |-> "none", items |-> [i \in 1..Len(u.items) |-> ResourceInfo(u.items[i])]]

\* Where Scan goes once a listing function has returned l: on to `next`, for
\* the listing functions return no error.
afterList_abortOnWarn(l, next) == IF l.warn # "none" THEN "failed" ELSE next
afterList(l, next) == next

\* Whether url.Parse returns an error, which Scan returns wrapped.
parseFails_ignored(url) == FALSE
parseFails(url) == url = "unparsable"

\* What Scan returns once initialize has returned err.
scanErrorOf(err) == IF err # "none" THEN "initialize_failed" ELSE ""

----------------------------------------------------------------------------
(* displayResults and the analysis of an item. *)

\* What the POST to the analysis server may come to: no response; a body that
\* is no JSON object; the objects {}, {"detection": {}}, and a detection with
\* is_injection true and risk_level HIGH.
AnalysisReplies ==
    {"unreachable", "not_json", "object_empty", "detection_empty", "detection_injection"}

\* The map analyzeForInjection returns: whether it has the key "error", and
\* what is under "detection".
analyzeForInjection(reply) ==
    CASE reply = "unreachable" -> [error |-> TRUE, detection |-> "absent"]
      [] reply = "not_json" -> [error |-> TRUE, detection |-> "absent"]
      [] reply = "object_empty" -> [error |-> FALSE, detection |-> "absent"]
      [] reply = "detection_empty" -> [error |-> FALSE, detection |-> "empty"]
      [] OTHER -> [error |-> FALSE, detection |-> "injection"]

\* The line displayAnalysisResult prints first for the map.
displayAnalysisResult(a) ==
    IF a.error THEN "Analysis Error"
    ELSE IF a.detection = "absent" THEN "Invalid detection result"
    ELSE IF a.detection = "injection" THEN "INJECTION DETECTED"
    ELSE "NO INJECTION DETECTED"

\* The calls of analyzeForInjection displayResults makes for the three lists,
\* in order: <<itemType, name, description>>.
Submissions(t, p, r) ==
    [i \in 1..Len(t) |-> <<"tool", t[i].name, t[i].description>>]
    \o [i \in 1..Len(p) |-> <<"prompt", p[i].name, p[i].description>>]
    \o [i \in 1..Len(r) |-> <<"resource", r[i].name, r[i].description>>]

NoAnalysis == [reply |-> "", line |-> ""]

----------------------------------------------------------------------------
(* The state machine. *)

NoRequest == [method |-> "", id |-> 0, session |-> ""]
NoExchange ==
    [method |-> "", kind |-> "", status |-> 0, hdr |-> "", body |-> <<>>,
     err |-> "", msg |-> NoMessage, rpcError |-> FALSE, hasResult |-> FALSE, shape |-> "", verdict |-> "",
     expired |-> FALSE]

Urls == {"valid", "unparsable"}

Init ==
    /\ HTTPUrl = "valid"
    /\ requestID = FirstRequestID
    /\ sessionID = ""
    /\ pc = "idle"
    /\ scanNo = 0
    /\ expired = FALSE
    /\ req = NoRequest
    /\ sent = <<>>
    /\ last = NoExchange
    /\ initErr = ""
    /\ scanErr = ""
    /\ tools = <<>>
    /\ prompts = <<>>
    /\ resources = <<>>
    /\ listed = {}
    /\ displayed = <<>>
    /\ observed = ""
    /\ analysed = <<>>
    /\ analysis = NoAnalysis

\* A call of `method` is built and handed to the HTTP client, with s.sessionID
\* being sid and s.requestID being rid.
IssueCall_fansOut(method, sid, rid) ==
    LET n == nextRequestID(rid)
    IN  /\ req' = [method |-> method, id |-> n.id, session |-> sid]
        /\ requestID' = n.requestID
        /\ sent' = IF method = "tools/list"
                   THEN sent \o <<(<<"tools/list", n.id>>), (<<"prompts/list", n.id + 1>>),
                                  (<<"resources/list", n.id + 2>>)>>
                   ELSE Append(sent, <<method, n.id>>)
IssueCall_resends(method, sid, rid) ==
    LET n == nextRequestID(rid)
    IN  /\ req' = [method |-> method, id |-> n.id, session |-> sid]
        /\ requestID' = n.requestID
        /\ sent' = sent \o <<(<<method, n.id>>), (<<method, n.id>>)>>
IssueCall(method, sid, rid) ==
    LET n == nextRequestID(rid)
    IN  /\ req' = [method |-> method, id |-> n.id, session |-> sid]
        /\ requestID' = n.requestID
        /\ sent' = Append(sent, <<method, n.id>>)

IssueNotification(method, sid) ==
    /\ req' = [method |-> method, id |-> 0, session |-> sid]
    /\ sent' = Append(sent, <<method, 0>>)
    /\ UNCHANGED requestID

\* The session header a status-200 response to a call carries, if it is one
\* and carries one; what was observed before, otherwise.
Observe(o) ==
    IF o.kind = "http" /\ o.status = StatusOK /\ o.hdr # "" THEN o.hdr ELSE observed

\* The shape of the value under "result", as the listing of `field` needs it.
ShapeOf(result, field) ==
    IF result.t # "object" THEN result.t
    ELSE CASE field = "tools" -> result.tools.t
           [] field = "prompts" -> result.prompts.t
           [] field = "resources" -> result.resources.t
           [] OTHER -> "object"

FieldOf(method) ==
    CASE method = "tools/list" -> "tools"
      [] method = "prompts/list" -> "prompts"
      [] method = "resources/list" -> "resources"
      [] OTHER -> ""

\* The record of an exchange of a call.
CallExchange(o, r, verdict) ==
    [method |-> req.method, kind |-> o.kind, status |-> o.status, hdr |-> o.hdr,
     body |-> o.body, err |-> r.err, msg |-> r.msg, rpcError |-> r.response.Error,
     hasResult |-> r.response.Result.t # "absent",
     shape |-> ShapeOf(r.response.Result, FieldOf(req.method)),
     verdict |-> verdict, expired |-> expired]

\* Scan is entered, with options.HTTPUrl as the caller has set it by then: the
\* context with the 30 s deadline is made.
ScanEnter ==
    /\ pc \in {"idle", "done", "failed"}
    /\ scanNo < MaxScans
    /\ pc' = "parse"
    /\ scanNo' = scanNo + 1
    /\ expired' = FALSE
    /\ req' = NoRequest
    /\ sent' = <<>>
    /\ last' = NoExchange
    /\ initErr' = ""
    /\ scanErr' = ""
    /\ tools' = <<>>
    /\ prompts' = <<>>
    /\ resources' = <<>>
    /\ listed' = {}
    /\ displayed' = <<>>
    /\ HTTPUrl' \in Urls
    /\ analysed' = <<>>
    /\ analysis' = NoAnalysis
    /\ UNCHANGED <<requestID, sessionID, observed>>

\* url.Parse; on success initialize is called and issues its request.
ParseURL ==
    /\ pc = "parse"
    /\ IF parseFails(HTTPUrl)
       THEN /\ pc' = "failed"
            /\ scanErr' = "invalid_url"
            /\ UNCHANGED <<requestID, req, sent>>
       ELSE /\ pc' = "await_initialize"
            /\ IssueCall("initialize", sessionID, requestID)
            /\ UNCHANGED scanErr
    /\ UNCHANGED <<analysed, analysis>>
    /\ UNCHANGED <<HTTPUrl, sessionID, scanNo, expired, last, initErr, tools,
                   prompts, resources, listed, displayed, observed>>

\* The initialize exchange ends; on success the notification is issued.
InitializeReply(o) ==
    /\ pc = "await_initialize"
    /\ LET r == sendRequest(sessionID, o)
           err == initializeError(r)
       IN  /\ sessionID' = r.sessionID
           /\ observed' = Observe(o)
           /\ last' = CallExchange(o, r, err)
           /\ IF err # "none"
              THEN /\ initErr' = err
                   /\ scanErr' = scanErrorOf(err)
                   /\ pc' = "failed"
                   /\ UNCHANGED <<req, sent, requestID>>
              ELSE /\ pc' = "await_initialized"
                   /\ IssueNotification("notifications/initialized", r.sessionID)
                   /\ UNCHANGED <<initErr, scanErr>>
    /\ UNCHANGED <<analysed, analysis>>
    /\ UNCHANGED <<HTTPUrl, scanNo, expired, tools, prompts, resources, listed, displayed>>

\* The notification exchange ends; initialize returns and listTools issues
\* its request.
InitializedReply(o) ==
    /\ pc = "await_initialized"
    /\ LET n == sendNotification(sessionID, o)
           err == initializeAfterNotify(n)
       IN  /\ sessionID' = n.sessionID
           /\ last' = [method |-> req.method, kind |-> o.kind, status |-> o.status,
                       hdr |-> o.hdr, body |-> o.body, err |-> n.err,
                       msg |-> NoMessage, rpcError |-> FALSE,
                       hasResult |-> FALSE, shape |-> "", verdict |-> n.err,
                       expired |-> expired]
           /\ initErr' = err
           /\ UNCHANGED observed
           /\ IF err # "none"
              THEN /\ scanErr' = scanErrorOf(err)
                   /\ pc' = "failed"
                   /\ UNCHANGED <<req, sent, requestID>>
              ELSE /\ pc' = "await_tools"
                   /\ IssueCall("tools/list", n.sessionID, requestID)
                   /\ UNCHANGED scanErr
    /\ UNCHANGED <<analysed, analysis>>
    /\ UNCHANGED <<HTTPUrl, scanNo, expired, tools, prompts, resources, listed, displayed>>

\* The tools/list exchange ends; listTools returns and listPrompts issues its
\* request.
ToolsReply(o) ==
    /\ pc = "await_tools"
    /\ LET r == sendRequest(sessionID, o)
           l == listTools(r)
           to == afterList(l, "await_prompts")
       IN  /\ sessionID' = r.sessionID
           /\ observed' = Observe(o)
           /\ last' = CallExchange(o, r, l.warn)
           /\ tools' = l.items
           /\ listed' = listed \cup {"tools"}
           /\ pc' = to
           /\ IF to = "failed"
              THEN /\ scanErr' = "listing_failed"
                   /\ UNCHANGED <<req, sent, requestID>>
              ELSE /\ IssueCall("prompts/list", r.sessionID, requestID)
                   /\ UNCHANGED scanErr
    /\ UNCHANGED <<analysed, analysis>>
    /\ UNCHANGED <<HTTPUrl, scanNo, expired, initErr, prompts, resources, displayed>>

\* The prompts/list exchange ends; listPrompts returns and listResources
\* issues its request.
PromptsReply(o) ==
    /\ pc = "await_prompts"
    /\ LET r == sendRequest(sessionID, o)
           l == listPrompts(r)
           to == afterList(l, "await_resources")
       IN  /\ sessionID' = r.sessionID
           /\ observed' = Observe(o)
           /\ last' = CallExchange(o, r, l.warn)
           /\ prompts' = l.items
           /\ listed' = listed \cup {"prompts"}
           /\ pc' = to
           /\ IF to = "failed"
              THEN /\ scanErr' = "listing_failed"
                   /\ UNCHANGED <<req, sent, requestID>>
              ELSE /\ IssueCall("resources/list", r.sessionID, requestID)
                   /\ UNCHANGED scanErr
    /\ UNCHANGED <<analysed, analysis>>
    /\ UNCHANGED <<HTTPUrl, scanNo, expired, initErr, tools, resources, displayed>>

\* The resources/list exchange ends; listResources returns.
ResourcesReply(o) ==
    /\ pc = "await_resources"
    /\ LET r == sendRequest(sessionID, o)
           l == listResources(r)
           to == afterList(l, "display")
       IN  /\ sessionID' = r.sessionID
           /\ observed' = Observe(o)
           /\ last' = CallExchange(o, r, l.warn)
           /\ resources' = l.items
           /\ listed' = listed \cup {"resources"}
           /\ pc' = to
           /\ scanErr' = IF to = "failed" THEN "listing_failed" ELSE scanErr
    /\ UNCHANGED <<analysed, analysis>>
    /\ UNCHANGED <<HTTPUrl, requestID, scanNo, expired, req, sent, initErr, tools,
                   prompts, displayed>>

\* displayResults takes the next item of the three lists, tools first, then
\* prompts, then resources: analyzeForInjection posts it and
\* displayAnalysisResult prints the outcome.
AnalyzeItem(reply) ==
    /\ pc = "display"
    /\ Len(analysed) < Len(Submissions(tools, prompts, resources))
    /\ analysed' = Append(analysed, Submissions(tools, prompts, resources)[Len(analysed) + 1])
    /\ analysis' = [reply |-> reply,
                    line |-> displayAnalysisResult(analyzeForInjection(reply))]
    /\ UNCHANGED <<HTTPUrl, requestID, sessionID, pc, scanNo, expired, req, sent, last,
                   initErr, scanErr, tools, prompts, resources, listed, displayed,
                   observed>>

\* displayResults has gone through the three lists it was given and returns,
\* and Scan returns nil.
DisplayResults ==
    /\ pc = "display"
    /\ Len(analysed) = Len(Submissions(tools, prompts, resources))
    /\ displayed' = <<[tools |-> tools, prompts |-> prompts, resources |-> resources]>>
    /\ scanErr' = "none"
    /\ pc' = "done"
    /\ analysis' = NoAnalysis
    /\ UNCHANGED <<HTTPUrl, requestID, sessionID, scanNo, expired, req, sent, last,
                   initErr, tools, prompts, resources, listed, observed, analysed>>

\* The 30 s of the Scan's context pass; the context is handed to the requests
\* to the server only, the last of which has ended when displayResults runs.
DeadlineExpires ==
    /\ pc \notin {"idle", "display", "done", "failed"}
    /\ ~expired
    /\ expired' = TRUE
    /\ UNCHANGED <<analysed, analysis>>
    /\ UNCHANGED <<HTTPUrl, requestID, sessionID, pc, scanNo, req, sent, last,
                   initErr, scanErr, tools, prompts, resources, listed, displayed,
                   observed>>

Next ==
    \/ ScanEnter
    \/ ParseURL
    \/ \E o \in Do("initialize", CallResponses) : InitializeReply(o)
    \/ \E o \in Do("notifications/initialized", NotifyResponses) : InitializedReply(o)
    \/ \E o \in Do("tools/list", CallResponses) : ToolsReply(o)
    \/ \E o \in Do("prompts/list", CallResponses) : PromptsReply(o)
    \/ \E o \in Do("resources/list", CallResponses) : ResourcesReply(o)
    \/ \E reply \in AnalysisReplies : AnalyzeItem(reply)
    \/ DisplayResults
    \/ DeadlineExpires

Spec == Init /\ [][Next]_vars

\* Every step of a Scan ends: url.Parse and displayResults return, and a
\* request under the context's deadline comes back with a response or an
\* error.  Whether Scan is invoked again is up to the caller.
Step ==
    \/ ParseURL
    \/ \E o \in Do("initialize", CallResponses) : InitializeReply(o)
    \/ \E o \in Do("notifications/initialized", NotifyResponses) : InitializedReply(o)
    \/ \E o \in Do("tools/list", CallResponses) : ToolsReply(o)
    \/ \E o \in Do("prompts/list", CallResponses) : PromptsReply(o)
    \/ \E o \in Do("resources/list", CallResponses) : ResourcesReply(o)
    \/ \E reply \in AnalysisReplies : AnalyzeItem(reply)
    \/ DisplayResults

FairSpec == Spec /\ WF_vars(Step)

----------------------------------------------------------------------------
(* Properties. *)

Notification == "notifications/initialized"
CallOrder == <<"initialize", "tools/list", "prompts/list", "resources/list">>
AwaitStates == {"await_initialize", "await_initialized", "await_tools",
                "await_prompts", "await_resources"}
Awaiting == pc \in AwaitStates
IsCall(e) == e[1] # Notification
Calls == SelectSeq(sent, IsCall)

\* The states of the scan's state machine, by where Scan stands.
Phase(p) ==
    CASE p = "idle" -> "Idle"
      [] p \in {"parse", "await_initialize", "await_initialized"} -> "Handshaking"
      [] p = "await_tools" -> "Enumerating(tools)"
      [] p = "await_prompts" -> "Enumerating(prompts)"
      [] p = "await_resources" -> "Enumerating(resources)"
      [] p = "display" -> "Reporting"
      [] p = "done" -> "Done"
      [] OTHER -> "Failed"

\* An exchange of a call that gave no usable reply: no response, a status
\* other than 200, an unreadable, misframed or malformed body, or a reply with
\* the error member.
SendFailure(x) ==
    \/ x.kind # "http"
    \/ x.status # StatusOK
    \/ x.err \in {"read", "sse", "json"}
    \/ x.rpcError

\* As SendFailure, or a result that is not of the shape the listing expects.
ListFailure(x) == SendFailure(x) \/ x.shape \in {"bad", "number"}

\* C1: in the first Scan on a Scanner the calls issued so far are initialize,
\* tools/list, prompts/list, resources/list in this order with the ids 1, 2,
\* 3, 4, whatever the earlier exchanges came to; the notification has no id
\* and uses none up.
C1_RequestIds ==
    scanNo = 1 =>
        /\ Len(Calls) <= Len(CallOrder)
        /\ \A i \in 1..Len(Calls) : Calls[i] = <<CallOrder[i], i>>
        /\ \A i \in 1..Len(sent) : sent[i][1] = Notification => sent[i][2] = 0
        /\ requestID = 1 + Len(Calls)
        /\ Awaiting => <<req.method, req.id>> = sent[Len(sent)]

C1_Witness ==
    /\ scanNo = 1
    /\ pc = "done"
    /\ Len(sent) = 5
    /\ tools = <<>>
    /\ prompts # <<>>
    /\ ListFailure(last)

\* C2, as claimed: a request issued right after a response that carried a
\* session header, whatever the response, carries that header's value.
C2_AnyResponseHeaderCarried ==
    (Awaiting /\ last.method # "" /\ last.hdr # "") => req.session = last.hdr

\* C2, amended: every request carries the session header of the latest
\* status-200 response to a call that had one, and no session header when
\* there was none.
C2_SessionCarried ==
    Awaiting => req.session = observed

C2_Witness ==
    /\ pc = "await_tools"
    /\ last.method = Notification
    /\ last.hdr = "A"
    /\ observed = "B"
    /\ req.session = "B"

\* C3: when a listing exchange fails in any of the ways of ListFailure, that
\* category's result is empty, Scan does not fail, the next listing call is
\* issued, the results of the other categories are left as they are, and
\* displayResults is given the three results.
C3_ListingFailureIsolated ==
    [][/\ (pc = "await_tools" /\ pc' # pc) =>
            /\ ListFailure(last') => tools' = <<>>
            /\ pc' = "await_prompts" /\ req'.method = "prompts/list"
            /\ scanErr' = "" /\ prompts' = prompts /\ resources' = resources
       /\ (pc = "await_prompts" /\ pc' # pc) =>
            /\ ListFailure(last') => prompts' = <<>>
            /\ pc' = "await_resources" /\ req'.method = "resources/list"
            /\ scanErr' = "" /\ tools' = tools /\ resources' = resources
       /\ (pc = "await_resources" /\ pc' # pc) =>
            /\ ListFailure(last') => resources' = <<>>
            /\ pc' = "display"
            /\ scanErr' = "" /\ tools' = tools /\ prompts' = prompts
       /\ (pc = "display" /\ pc' # pc) =>
            /\ pc' = "done" /\ scanErr' = "none"
            /\ displayed' = <<[tools |-> tools, prompts |-> prompts,
                               resources |-> resources]>>
      ]_vars

C3_Witness ==
    /\ pc = "await_resources"
    /\ last.method = "prompts/list"
    /\ last.rpcError
    /\ prompts = <<>>
    /\ tools # <<>>

\* C4: Scan has returned an error exactly when the URL did not parse or
\* initialize returned an error; Failed is entered from Handshaking only; and
\* once initialize has returned nil, Scan never fails and reaches Done.
C4_FailsOnlyInHandshake ==
    /\ [](pc \in {"done", "failed"} =>
            ((scanErr # "none") <=> (HTTPUrl = "unparsable" \/ initErr \notin {"", "none"})))
    /\ [][(pc' = "failed" /\ pc # "failed") => Phase(pc) = "Handshaking"]_vars
    /\ [][initErr = "none" => (pc' # "failed" /\ scanErr' \in {"", "none"})]_vars
    /\ ((initErr = "none") ~> (pc = "done"))

C4_Witness ==
    /\ pc = "done"
    /\ scanErr = "none"
    /\ initErr = "none"
    /\ ListFailure(last)
    /\ tools = <<>> /\ prompts = <<>> /\ resources = <<>>

\* C5: when the initialize exchange fails (no response, a status other than
\* 200, an unreadable, misframed or malformed body, the error member), Scan
\* has failed with the handshake error, and initialize is the only request of
\* the scan: no notification, no listing, nothing displayed.
C5_HandshakeFailureAborts ==
    /\ (last.method = "initialize" /\ SendFailure(last)) => initErr \notin {"", "none"}
    /\ initErr \notin {"", "none"} =>
        /\ pc = "failed"
        /\ scanErr = "initialize_failed"
        /\ Len(sent) = 1 /\ sent[1][1] = "initialize"
        /\ listed = {}
        /\ displayed = <<>>

C5_Witness ==
    /\ pc = "failed"
    /\ last.method = "initialize"
    /\ last.status = 500
    /\ scanErr = "initialize_failed"

\* C6: with an unparsable URL Scan fails with the URL error as its first step:
\* no request is issued, requestID and sessionID stay as they were.
C6_BadUrlFailsBeforeNetwork ==
    /\ [][(pc = "parse" /\ HTTPUrl = "unparsable" /\ pc' # pc) =>
            /\ pc' = "failed" /\ scanErr' = "invalid_url"
            /\ sent' = <<>> /\ req' = NoRequest /\ last' = NoExchange
            /\ requestID' = requestID /\ sessionID' = sessionID]_vars
    /\ [](scanErr = "invalid_url" => (pc = "failed" /\ sent = <<>> /\ last = NoExchange))

C6_Witness ==
    /\ pc = "failed"
    /\ scanErr = "invalid_url"
    /\ sent = <<>>
    /\ requestID > 1
    /\ sessionID # ""

\* C7: whatever the notification exchange comes to, initialize returns nil and
\* tools/list is issued, the listing calls then follow one another to
\* displayResults, and sendNotification returns no error for any response.
C7_NotificationBestEffort ==
    /\ [][(pc = "await_initialized" /\ pc' # pc) =>
            /\ pc' = "await_tools" /\ req'.method = "tools/list"
            /\ initErr' = "none" /\ scanErr' = ""
            /\ last'.kind = "http" => last'.err = "none"]_vars
    /\ [][/\ (pc = "await_tools" /\ pc' # pc) => pc' = "await_prompts"
          /\ (pc = "await_prompts" /\ pc' # pc) => pc' = "await_resources"
          /\ (pc = "await_resources" /\ pc' # pc) => pc' = "display"]_vars

C7_Witness ==
    /\ pc = "await_tools"
    /\ last.method = Notification
    /\ last.status = 500
    /\ initErr = "none"

\* C8, as claimed: once set, the session id keeps its value.
C8_SetAtMostOnce ==
    [][sessionID # "" => sessionID' = sessionID]_vars

\* C8, amended: the session id changes only on a status-200 response to a
\* call that carries a session header, to that header's value, be it set
\* before or not; and every request issued carries the session id.
C8_LastWriterWins ==
    /\ [][sessionID' # sessionID =>
            /\ pc \in AwaitStates \ {"await_initialized"}
            /\ last'.kind = "http" /\ last'.status = StatusOK
            /\ last'.hdr = sessionID']_vars
    /\ [][(pc \in AwaitStates \ {"await_initialized"} /\ pc' # pc
           /\ last'.kind = "http" /\ last'.status = StatusOK /\ last'.hdr # "") =>
            sessionID' = last'.hdr]_vars
    /\ [][sent' # sent /\ sent' # <<>> => req'.session = sessionID']_vars

C8_Witness ==
    /\ pc = "done"
    /\ req.session = "A"
    /\ last.hdr = "B"
    /\ sessionID = "B"

\* C9, as claimed: a reply to a call with neither result nor error is handled
\* as a failure, by initialize and by the listing functions.
C9_NeitherIsMalformed ==
    (/\ last.method \in {"initialize", "tools/list", "prompts/list", "resources/list"}
     /\ last.err = "none"
     /\ ~last.rpcError
     /\ ~last.hasResult) => last.verdict # "none"

\* C10: a request that is under way or issued when the deadline has passed
\* ends with the deadline error and brings nothing from the server: initialize
\* fails the scan, a listing gives the empty list, the session id stays; and
\* the deadline stays passed to the end of the scan.
C10_DeadlineAbortsRemaining ==
    /\ [][(expired /\ pc \in AwaitStates /\ pc' # pc) =>
            /\ last'.kind = "timeout" /\ last'.err = "transport"
            /\ sessionID' = sessionID
            /\ pc = "await_initialize" => (pc' = "failed" /\ scanErr' = "initialize_failed")
            /\ pc = "await_tools" => tools' = <<>>
            /\ pc = "await_prompts" => prompts' = <<>>
            /\ pc = "await_resources" => resources' = <<>>]_vars
    /\ [][(expired /\ pc' # "parse") => expired']_vars

C10_Witness ==
    /\ pc = "done"
    /\ expired
    /\ last.kind = "timeout"
    /\ tools # <<>>
    /\ prompts = <<>>
    /\ resources = <<>>

\* The items a body that is one JSON text, sent bare, has in the list of
\* `field` under "result"; none when it has no such list.
ServedItems(body, field) ==
    LET doc == Doc(body[1])
        l == IF doc.top # "object" \/ doc.result.t # "object" THEN Absent
             ELSE CASE field = "tools" -> doc.result.tools
                    [] field = "prompts" -> doc.result.prompts
                    [] OTHER -> doc.result.resources
    IN  IF l.t = "list" THEN l.items ELSE <<>>

IsBareDoc(body) == Len(body) = 1 /\ body[1] \in DocTokens

\* C11: when a listing exchange ends, the result of its category is empty if
\* the exchange failed, and otherwise the items of the list the server sent,
\* in the server's order, each with its name and description (and its uri for
\* a resource) and nothing else, or empty when the list was empty; the other
\* categories are as they were; and a scan that got through the handshake
\* returns nil with the three results displayed as they are.
C11_ResultsAreWhatWasServed ==
    /\ [][/\ (pc = "await_tools" /\ pc' # pc) =>
               /\ ListFailure(last') => tools' = <<>>
               /\ (~ListFailure(last') /\ IsBareDoc(last'.body)) =>
                    (LET items == ServedItems(last'.body, "tools")
                     IN  tools' = [i \in 1..Len(items) |->
                                    [name |-> items[i].name,
                                     description |-> items[i].description]])
               /\ prompts' = prompts /\ resources' = resources
          /\ (pc = "await_prompts" /\ pc' # pc) =>
               /\ ListFailure(last') => prompts' = <<>>
               /\ (~ListFailure(last') /\ IsBareDoc(last'.body)) =>
                    (LET items == ServedItems(last'.body, "prompts")
                     IN  prompts' = [i \in 1..Len(items) |->
                                      [name |-> items[i].name,
                                       description |-> items[i].description]])
               /\ tools' = tools /\ resources' = resources
          /\ (pc = "await_resources" /\ pc' # pc) =>
               /\ ListFailure(last') => resources' = <<>>
               /\ (~ListFailure(last') /\ IsBareDoc(last'.body)) =>
                    (LET items == ServedItems(last'.body, "resources")
                     IN  resources' = [i \in 1..Len(items) |->
                                        [name |-> items[i].name,
                                         description |-> items[i].description,
                                         uri |-> items[i].uri]])
               /\ tools' = tools /\ prompts' = prompts
         ]_vars
    /\ [](pc = "done" =>
            /\ scanErr = "none"
            /\ displayed = <<[tools |-> tools, prompts |-> prompts,
                              resources |-> resources]>>)

C11_Witness ==
    /\ pc = "done"
    /\ scanErr = "none"
    /\ tools = <<[name |-> "echo", description |-> Echo.description]>>
    /\ prompts = <<>>
    /\ resources = <<>>
    /\ last.body = <<"doc_empty_lists">>
    /\ displayed = <<[tools |-> tools, prompts |-> <<>>, resources |-> <<>>]>>

\* Whether `body` is an SSE body whose first line is an event: line and whose
\* second is a data line carrying the JSON text d, whatever follows.
IsFramed(body, d) ==
    HasPrefix(body, <<"event:", " ", "message", "\n", "data:", " ", d, "\n">>)

\* What sendRequest gives for a status-200 response with the JSON text d as
\* its whole body.
Bare(d) == sendRequest("", Http(StatusOK, "", <<d>>, FALSE))

\* C12: the exchange of a call whose status-200 body is an event: line
\* followed by a data line carrying a JSON text comes to what it comes to with
\* that JSON text as the whole body: the same error or none, the same
\* envelope (error member, result), the same outcome of initialize and the
\* same listing result.
C12_FramedAsBare ==
    \A d \in DocTokens :
        (/\ last.method \in {"initialize", "tools/list", "prompts/list", "resources/list"}
         /\ last.kind = "http" /\ last.status = StatusOK /\ last.err # "read"
         /\ IsFramed(last.body, d)) =>
            /\ last.err = Bare(d).err
            /\ last.rpcError = Bare(d).response.Error
            /\ last.hasResult = (Bare(d).response.Result.t # "absent")
            /\ last.shape = ShapeOf(Bare(d).response.Result, FieldOf(last.method))
            /\ last.method = "initialize" => last.verdict = initializeError(Bare(d))
            /\ last.method = "tools/list" =>
                 (last.verdict = listTools(Bare(d)).warn /\ tools = listTools(Bare(d)).items)
            /\ last.method = "prompts/list" =>
                 (last.verdict = listPrompts(Bare(d)).warn /\ prompts = listPrompts(Bare(d)).items)
            /\ last.method = "resources/list" =>
                 (last.verdict = listResources(Bare(d)).warn
                  /\ resources = listResources(Bare(d)).items)

C12_Witness ==
    /\ last.method = "prompts/list"
    /\ last.body = SSE(<<"data:", " ", "doc_all">>)
    /\ last.err = "none"
    /\ prompts = <<[name |-> "greet", description |-> "Greets"]>>

\* Whether `body` has data: anywhere.
HasData(body) == \E i \in 1..Len(body) : body[i] = "data:"

\* C13: the exchange of a call whose status-200 body starts with event: and
\* has no data: in it ends with the SSE framing error: nothing of the body is
\* taken for a response, initialize fails the scan and a listing gives the
\* empty list.
C13_NoDataLineIsFramingError ==
    (/\ last.method \in {"initialize", "tools/list", "prompts/list", "resources/list"}
     /\ last.kind = "http" /\ last.status = StatusOK /\ last.err # "read"
     /\ HasPrefix(last.body, EventPrefix)
     /\ ~HasData(last.body)) =>
        /\ last.err = "sse"
        /\ ~last.hasResult /\ ~last.rpcError
        /\ last.verdict \in {"request_failed", "send"}
        /\ last.method = "initialize" => (pc = "failed" /\ scanErr = "initialize_failed")
        /\ last.method = "tools/list" => tools = <<>>
        /\ last.method = "prompts/list" => prompts = <<>>
        /\ last.method = "resources/list" => resources = <<>>

C13_Witness ==
    /\ last.method = "tools/list"
    /\ last.body = SSE(<<"doc_all">>)
    /\ last.err = "sse"
    /\ tools = <<>>
    /\ pc = "await_prompts"

\* C14, as claimed: in every Scan, a second one on the same Scanner included,
\* the initialize request has the id 1 and no session header.
C14_EveryScanStartsFresh ==
    (pc = "await_initialize") =>
        /\ req.method = "initialize"
        /\ req.id = FirstRequestID
        /\ req.session = ""

\* The requests of a scan that gets through the handshake.
RequestOrder ==
    <<"initialize", Notification, "tools/list", "prompts/list", "resources/list">>

\* C15: the requests a scan has issued are, in this order and each once,
\* initialize, notifications/initialized, tools/list, prompts/list,
\* resources/list, as far as the scan has come, whatever the exchanges came
\* to; once initialize has returned nil the scan issues all five; and
\* displayResults is entered from the end of resources/list only, with the
\* three listing calls ended.
C15_OrderedOnceEach ==
    /\ [](/\ Len(sent) <= Len(RequestOrder)
          /\ \A i \in 1..Len(sent) : sent[i][1] = RequestOrder[i]
          /\ (pc \in {"display", "done"}) =>
                /\ Len(sent) = Len(RequestOrder)
                /\ listed = {"tools", "prompts", "resources"}
          /\ displayed # <<>> => pc = "done")
    /\ [][/\ (pc' = "display" /\ pc # "display") =>
               /\ pc = "await_resources"
               /\ last'.method = "resources/list"
          /\ (pc \in AwaitStates /\ pc' # pc /\ pc' # "failed") =>
               /\ last'.method = sent[Len(sent)][1]
               /\ Len(sent') <= Len(sent) + 1
         ]_vars

C15_Witness ==
    /\ pc = "display"
    /\ Len(sent) = 5
    /\ sent[5][1] = "resources/list"
    /\ last.method = "resources/list"
    /\ last.status = 500
    /\ tools = <<>>
    /\ prompts = <<>>

\* How many exchanges of the scan have ended: `last` is the latest of them.
Ended ==
    IF last.method = "" THEN 0
    ELSE CHOOSE i \in 1..Len(RequestOrder) : RequestOrder[i] = last.method

C17_Non200IsHardFailure ==
    (/\ last.method \in {"initialize", "tools/list", "prompts/list", "resources/list"}
     /\ last.kind = "http"
     /\ last.status # StatusOK) =>
        /\ last.err = "status"
        /\ last.msg = [status |-> last.status, body |-> last.body]
        /\ ~last.hasResult /\ ~last.rpcError /\ last.shape = "absent"
        /\ last.verdict \in {"request_failed", "send"}
        /\ last.method = "initialize" => (pc = "failed" /\ scanErr = "initialize_failed")
        /\ last.method = "tools/list" => tools = <<>>
        /\ last.method = "prompts/list" => prompts = <<>>
        /\ last.method = "resources/list" => resources = <<>>

C17_Witness ==
    /\ last.method = "resources/list"
    /\ last.status = 500
    /\ last.body = <<"doc_all">>
    /\ last.msg = [status |-> 500, body |-> <<"doc_all">>]
    /\ resources = <<>>
    /\ tools # <<>>

\* C18: s.sessionID changes only at the end of the exchange of a call whose
\* response has status 200 and a session header, and then to that header; the
\* end of any other exchange (no response, another status, no session header,
\* any response to the notification) leaves it as it is, as does entering
\* Scan and every other step; and once it is set it is never empty again.
C18_SessionIdFrame ==
    /\ [][sessionID' # sessionID =>
            /\ pc \in AwaitStates /\ pc' # pc
            /\ last'.method \in {"initialize", "tools/list", "prompts/list", "resources/list"}
            /\ last'.kind = "http"
            /\ last'.status = StatusOK
            /\ last'.hdr # ""
            /\ sessionID' = last'.hdr]_vars
    /\ [][(/\ pc \in AwaitStates /\ pc' # pc
           /\ \/ last'.kind # "http"
              \/ last'.status # StatusOK
              \/ last'.hdr = ""
              \/ last'.method = Notification) => sessionID' = sessionID]_vars
    /\ [][sessionID # "" => sessionID' # ""]_vars

C18_Witness ==
    /\ pc = "await_tools"
    /\ last.method = Notification
    /\ last.status = StatusOK
    /\ last.hdr = "B"
    /\ sessionID = "A"
    /\ req.session = "A"

\* The lines of `body` that begin with "data: ", by their numbers: as they
\* are, and with the white space around the line cut off.
DataLinesAsIs(body) ==
    {i \in 1..Len(Split(body)) : HasPrefix(Split(body)[i], DataPrefix)}
DataLinesTrimmed(body) ==
    {i \in 1..Len(Split(body)) : HasPrefix(TrimSpace(Split(body)[i]), DataPrefix)}

First(S) == CHOOSE i \in S : \A j \in S : i <= j

\* Whether the exchange `x` came to what decoding the JSON text `text` gives.
DecodedAs(x, text) ==
    /\ x.err = IF Unmarshal(text).err THEN "json" ELSE "none"
    /\ x.rpcError = Unmarshal(text).response.Error
    /\ x.hasResult = (Unmarshal(text).response.Result.t # "absent")
    /\ x.shape = ShapeOf(Unmarshal(text).response.Result, FieldOf(x.method))

\* An exchange of a call whose status-200 body was read.
BodyRead(x) ==
    /\ x.method \in {"initialize", "tools/list", "prompts/list", "resources/list"}
    /\ x.kind = "http" /\ x.status = StatusOK /\ x.err # "read"

\* C19, as claimed: of a body that starts with event:, what is decoded is
\* the rest of the first line that begins with "data: ", and the call fails
\* with the framing error when no line begins so; any other body is decoded
\* whole.
C19_FirstDataLineAsIs ==
    BodyRead(last) =>
        IF HasPrefix(last.body, EventPrefix)
        THEN IF DataLinesAsIs(last.body) = {}
             THEN last.err = "sse"
             ELSE DecodedAs(last, TrimPrefix(Split(last.body)[First(DataLinesAsIs(last.body))],
                                             DataPrefix))
        ELSE DecodedAs(last, last.body)

\* C19, amended: of a body that starts with event:, what is decoded is the
\* first line that begins with "data: " once the white space around the line
\* is cut off, less that prefix, and the call fails with the framing error
\* when no line is so; any other body is decoded whole.
C19_FirstTrimmedDataLine ==
    BodyRead(last) =>
        IF HasPrefix(last.body, EventPrefix)
        THEN IF DataLinesTrimmed(last.body) = {}
             THEN last.err = "sse" /\ ~last.hasResult /\ ~last.rpcError
             ELSE DecodedAs(last,
                    TrimPrefix(TrimSpace(Split(last.body)[First(DataLinesTrimmed(last.body))]),
                               DataPrefix))
        ELSE DecodedAs(last, last.body)

C19_Witness ==
    /\ last.method = "tools/list"
    /\ last.body = SSE(<<" ", "data:", " ", " ", "doc_all", " ">>)
    /\ DataLinesAsIs(last.body) = {}
    /\ last.err = "none"
    /\ tools = <<[name |-> "echo", description |-> Echo.description]>>

\* The replies of the analysis server that are no verdict: none at all, a body
\* that is no JSON, and an object without the fields of a verdict.
NoVerdict == {"unreachable", "not_json", "object_empty", "detection_empty"}

\* C20, as claimed: displayResults passes the items of the three results to
\* the analysis one by one, tools first, then prompts, then resources, each
\* once; for a reply that is no verdict an error is printed for the item, the
\* items after it are analysed all the same, and Scan returns nil with every
\* item analysed.
C20_AnalysedOnceOrErrorReported ==
    /\ Len(analysed) <= Len(Submissions(tools, prompts, resources))
    /\ \A i \in 1..Len(analysed) :
            analysed[i] = Submissions(tools, prompts, resources)[i]
    /\ pc = "done" =>
            /\ analysed = Submissions(tools, prompts, resources)
            /\ scanErr = "none"
    /\ analysis.reply \in NoVerdict =>
            analysis.line \in {"Analysis Error", "Invalid detection result"}

====
